---------------------------- MODULE Spec2Model ----------------------------
(***************************************************************************)
(* Model of openedx/core/djangoapps/catalog/utils.py: the helpers that     *)
(* fetch programs and program types from the catalog service, aggregate    *)
(* instructors from the course storage and compose enriched programs.      *)
(*                                                                         *)
(* Python values are modelled as follows.                                  *)
(*   - a list is a sequence, a dict is a function over its keys;           *)
(*   - None, where a string may stand (uuid, type, cache_key), is the      *)
(*     reserved string None; where a dict may stand it is NoneDict;        *)
(*   - the 'type' key of a program holds a string in the catalog's answer  *)
(*     and a program-type dict after enrichment: the string is boxed as    *)
(*     Str(name) so that both kinds can be told apart and compared;        *)
(*   - objects that the code may alias (program dicts returned by the      *)
(*     fetch utility and kept in the cache) live in `heap` and are passed  *)
(*     around as references, so that copy.deepcopy is not the identity.    *)
(* Every Python function is an operator that takes the mutable state       *)
(* m = [cache, heap, tr] and returns [m, ret, err].                        *)
(***************************************************************************)
EXTENDS Integers, Sequences, FiniteSets, TLC

VARIABLES
    config,     \* the CatalogIntegration row, if any
    users,      \* usernames present in the User table
    programs,   \* the catalog service's marketable programs
    types,      \* the catalog service's program types
    courses,    \* the course storage: course key -> descriptor or NoCourse
    cache,      \* the shared Django cache: key -> value
    heap,       \* program objects by reference
    op,         \* the last call: name, arguments, outcome and what it touched
    race        \* the requests that run _get_program_instructors concurrently

vars == <<config, users, programs, types, courses, cache, heap, op, race>>

----------------------------------------------------------------------------
(* Bounds of the model *)

MaxPrograms == 2
MaxTypes == 2
MaxInclude == 2
MaxInstructors == 2

----------------------------------------------------------------------------
(* Values *)

None == "None"
NoneDict == [none |-> TRUE]
NoError == "ok"

\* The reference that stands for None; objects have references from 1.
NoneRef == 0

Str(s) == [str |-> s]
IsStr(v) == DOMAIN v = {"str"}

\* Sequencing: F applied to the value of x, which is evaluated once.
Then(x, F(_)) == CHOOSE out \in {F(v) : v \in {x}} : TRUE

Put(d, k, v) == [f \in DOMAIN d \cup {k} |-> IF f = k THEN v ELSE d[f]]

\* Truth value of an optional string, and of an optional list.
Truthy(s) == s # None /\ s # ""
Falsy(l) == l = None \/ l = <<>>

ServiceUsername == "catalog_service_user"
CacheKeyPrefix == "catalog.api.data"

UuidOf(i) == IF i = 1 THEN "u1" ELSE IF i = 2 THEN "u2" ELSE "u3"
Slugs == {"s1", "s2"}
TypeNames == {"A", "B"}
CourseKeys == {"c1", "c2"}

\* What callers of get_programs ask for: the programs fetched by uuid (by
\* their place in the catalog) and the types used as a filter.
FetchedPrograms == {1}
FilterTypes == {"A"}
InstructorNames == {"n1", "n2"}
Organizations == {"o1", "o2"}

RECURSIVE SeqsUpTo(_, _)
SeqsUpTo(S, n) ==
    IF n = 0 THEN {<<>>}
    ELSE LET shorter == SeqsUpTo(S, n - 1)
         IN shorter \cup {Append(s, x) : s \in {t \in shorter : Len(t) = n - 1}, x \in S}

----------------------------------------------------------------------------
(* What a call touched *)

NoTrace ==
    [user_lookups |-> 0, api_clients |-> 0, cache_gets |-> <<>>, cache_sets |-> <<>>,
     fetch_calls |-> <<>>, requests |-> <<>>, course_lookups |-> <<>>]

NoOp == [name |-> "env", args |-> <<>>, err |-> NoError, ret |-> NoneDict, tr |-> NoTrace]

Enter == [cache |-> cache, heap |-> heap, tr |-> NoTrace]

\* No request is running _get_program_instructors step by step.
NoRace == [of |-> <<>>]

Return(m, ret) == [m |-> m, ret |-> ret, err |-> NoError]
Raise(m, err) == [m |-> m, ret |-> NoneDict, err |-> err]

----------------------------------------------------------------------------
(* Collaborators *)

\* CatalogIntegration.current(): the row, or a default (disabled) instance.
CatalogIntegration_current ==
    [enabled |-> config.present /\ config.enabled,
     cache_ttl |-> IF config.present THEN config.cache_ttl ELSE 0,
     service_username |-> ServiceUsername,
     CACHE_KEY |-> CacheKeyPrefix]

is_cache_enabled(catalog_integration) == catalog_integration.cache_ttl > 0

\* References of the objects the fetch utility hands out for program i.
ListRef(i) == i
DetailRef(i) == Len(programs) + i
OriginalRefs == 1..(2 * Len(programs))

\* The references of the first i programs in the listing, with the type filter.
RECURSIVE Listing(_, _)
Listing(i, querystring) ==
    IF i = 0 THEN <<>>
    ELSE IF "type" \in DOMAIN querystring => programs[i].type = Str(querystring["type"])
         THEN Append(Listing(i - 1, querystring), ListRef(i))
         ELSE Listing(i - 1, querystring)

\* The catalog's answer to GET <resource>[/<resource_id>]?<querystring>.
CatalogService(resource, resource_id, querystring) ==
    IF resource = "programs" THEN
        IF resource_id # None
        THEN DetailRef(CHOOSE i \in 1..Len(programs) : programs[i].uuid = resource_id)
        ELSE Listing(Len(programs), querystring)
    ELSE types

\* cache.get(key), noted with whether the entry was there.
CacheGet(m, key) ==
    [m EXCEPT !.tr.cache_gets = Append(@, [key |-> key, hit |-> key \in DOMAIN m.cache])]

\* get_edx_api_data: answer from the cache when a cache key is given and the
\* entry is there, otherwise ask the service and store the answer.
get_edx_api_data(m, api_config, resource, resource_id, cache_key, querystring) ==
    LET call == [resource |-> resource, resource_id |-> resource_id,
                 cache_key |-> cache_key, querystring |-> querystring]
        m1 == [m EXCEPT !.tr.fetch_calls = Append(@, call)]
        key == IF cache_key = None THEN None
               ELSE IF resource_id # None THEN cache_key \o "." \o resource_id
               ELSE cache_key
        hit == key # None /\ key \in DOMAIN m.cache
        m2 == IF key = None THEN m1 ELSE CacheGet(m1, key)
        answer == CatalogService(resource, resource_id, querystring)
        m3 == [m2 EXCEPT !.tr.requests = Append(@, call)]
        m4 == IF key = None THEN m3
              ELSE [m3 EXCEPT !.cache = Put(@, key, answer), !.tr.cache_sets = Append(@, key)]
    IN IF hit THEN Return(m2, m.cache[key]) ELSE Return(m4, answer)

\* User.objects.get(username=...)
UserLookup(m) == [m EXCEPT !.tr.user_lookups = @ + 1]

create_catalog_api_client(m) == [m EXCEPT !.tr.api_clients = @ + 1]

----------------------------------------------------------------------------
(* utils.py *)

\* User.objects.get(username=...) finds the user (raises no DoesNotExist).
UserExists_always(username) == TRUE
UserExists(username) == username \in users

\* '{base}.programs{type}'
programs_cache_key(catalog_integration, type) ==
    catalog_integration.CACHE_KEY \o ".programs" \o (IF Truthy(type) THEN "." \o type ELSE "")

programs_querystring_no_serializer(uuid, type) ==
    LET base == [marketable |-> 1, exclude_utm |-> 1]
    IN IF Truthy(type) THEN Put(base, "type", type) ELSE base

programs_querystring(uuid, type) ==
    LET base == [marketable |-> 1, exclude_utm |-> 1]
        q1 == IF Truthy(uuid) THEN Put(base, "use_full_course_serializer", 1) ELSE base
    IN IF Truthy(type) THEN Put(q1, "type", type) ELSE q1

\* cache_key if catalog_integration.is_cache_enabled else None
cache_key_always(catalog_integration, cache_key) == cache_key
cache_key_if_enabled(catalog_integration, cache_key) ==
    IF is_cache_enabled(catalog_integration) THEN cache_key ELSE None

get_programs(m, uuid, type) ==
    LET catalog_integration == CatalogIntegration_current
    IN IF catalog_integration.enabled THEN
           LET m1 == UserLookup(m)
           IN IF ~UserExists(catalog_integration.service_username) THEN Return(m1, <<>>)
              ELSE LET m2 == create_catalog_api_client(m1)
                       cache_key == programs_cache_key(catalog_integration, type)
                       querystring == programs_querystring(uuid, type)
                   IN get_edx_api_data(m2, catalog_integration, "programs", uuid,
                          cache_key_if_enabled(catalog_integration, cache_key), querystring)
       ELSE Return(m, <<>>)

get_program_types_unguarded(m) ==
    LET catalog_integration == CatalogIntegration_current
        m1 == UserLookup(m)
    IN IF ~UserExists(catalog_integration.service_username) THEN Return(m1, <<>>)
       ELSE get_edx_api_data(create_catalog_api_client(m1), catalog_integration, "program_types",
                None, cache_key_if_enabled(catalog_integration,
                                           catalog_integration.CACHE_KEY \o ".program_types"),
                <<>>)

get_program_types(m) ==
    LET catalog_integration == CatalogIntegration_current
    IN IF catalog_integration.enabled THEN
           LET m1 == UserLookup(m)
           IN IF ~UserExists(catalog_integration.service_username) THEN Return(m1, <<>>)
              ELSE LET m2 == create_catalog_api_client(m1)
                       cache_key == catalog_integration.CACHE_KEY \o ".program_types"
                   IN get_edx_api_data(m2, catalog_integration, "program_types", None,
                          cache_key_if_enabled(catalog_integration, cache_key), <<>>)
       ELSE Return(m, <<>>)

\* next(program_type for program_type in get_program_types() if ...)
get_program_type_last(m, name) ==
    Then(get_program_types(m), LAMBDA r :
    Then({i \in 1..Len(r.ret) : r.ret[i].name = name}, LAMBDA found :
    IF found = {} THEN Raise(r.m, "StopIteration")
    ELSE Return(r.m, r.ret[CHOOSE i \in found : \A j \in found : i >= j])))

get_program_type(m, name) ==
    Then(get_program_types(m), LAMBDA r :
    Then({i \in 1..Len(r.ret) : r.ret[i].name = name}, LAMBDA found :
    IF found = {} THEN Raise(r.m, "StopIteration")
    ELSE Return(r.m, r.ret[CHOOSE i \in found : \A j \in found : i <= j])))

\* The distinct course keys of the program's course runs. A CourseKey is
\* identified by the string it is parsed from.
get_program_course_run_keys(program) ==
    UNION {{program.courses[i].course_runs[j].key : j \in DOMAIN program.courses[i].course_runs} :
              i \in DOMAIN program.courses}

\* dict.update({instructor.get('name'): instructor for instructor in instructors})
DictUpdate_keep_first(d, instructors) ==
    LET names == {instructors[i].name : i \in DOMAIN instructors}
        last(n) == CHOOSE i \in DOMAIN instructors :
                       /\ instructors[i].name = n
                       /\ \A j \in DOMAIN instructors : instructors[j].name = n => j <= i
    IN [n \in DOMAIN d \cup names |-> IF n \in DOMAIN d THEN d[n] ELSE instructors[last(n)]]

DictUpdate(d, instructors) ==
    LET names == {instructors[i].name : i \in DOMAIN instructors}
        last(n) == CHOOSE i \in DOMAIN instructors :
                       /\ instructors[i].name = n
                       /\ \A j \in DOMAIN instructors : instructors[j].name = n => j <= i
    IN [n \in DOMAIN d \cup names |-> IF n \in names THEN instructors[last(n)] ELSE d[n]]

\* The elements of the sequence `order` that are in S, in that order: the
\* iteration order of a set or dict whose elements hash in that order.
RECURSIVE InOrder(_, _)
InOrder(order, S) ==
    IF order = <<>> THEN <<>>
    ELSE IF Head(order) \in S THEN <<Head(order)>> \o InOrder(Tail(order), S)
    ELSE InOrder(Tail(order), S)

\* getattr(course_descriptor, 'instructor_info', {}).get('instructors', [])
CourseInstructors(course_descriptor) ==
    IF "instructors" \in DOMAIN course_descriptor.instructor_info
    THEN course_descriptor.instructor_info.instructors
    ELSE <<>>

\* The loop over the course run keys: m gathers the lookups, d the dict.
RECURSIVE GatherInstructors(_, _, _)
GatherInstructors(m, d, keys) ==
    IF keys = <<>> THEN [m |-> m, d |-> d]
    ELSE Then(Head(keys), LAMBDA course_run_key :
         Then([m EXCEPT !.tr.course_lookups = Append(@, course_run_key)], LAMBDA m1 :
         Then(courses[course_run_key], LAMBDA course_descriptor :
         IF course_descriptor # NoneDict
         THEN Then(DictUpdate(d, CourseInstructors(course_descriptor)), LAMBDA d1 :
              GatherInstructors(m1, d1, Tail(keys)))
         ELSE GatherInstructors(m1, d, Tail(keys)))))

\* `if not program_instructors_list`: a missing entry or an empty list.
NotCached(m, cache_key) == cache_key \notin DOMAIN m.cache \/ m.cache[cache_key] = <<>>

\* key_order and name_order are the iteration orders of the set of course
\* keys and of the dict of instructors, which the language leaves open.
_get_program_instructors(m, program, key_order, name_order) ==
    Then("program.instructors." \o program.uuid, LAMBDA cache_key :
    Then(CacheGet(m, cache_key), LAMBDA m1 :
    IF NotCached(m, cache_key) THEN
        Then(GatherInstructors(m1, <<>>, InOrder(key_order, get_program_course_run_keys(program))),
             LAMBDA g :
        Then(InOrder(name_order, DOMAIN g.d), LAMBDA names :
        Then([i \in 1..Len(names) |-> g.d[names[i]]], LAMBDA program_instructors_list :
        Return([g.m EXCEPT !.cache = Put(@, cache_key, program_instructors_list),
                           !.tr.cache_sets = Append(@, cache_key)],
               program_instructors_list))))
    ELSE Return(m1, m.cache[cache_key])))

\* copy.deepcopy of a program: a new object with the same items.
deepcopy_alias(m, ref) == Return(m, ref)

deepcopy(m, ref) ==
    LET new == 1 + Cardinality(DOMAIN m.heap)
    IN Return([m EXCEPT !.heap = Put(@, new, m.heap[ref])], new)

\* d[k] = v on the object behind ref.
SetItem(m, ref, k, v) == [m EXCEPT !.heap[ref] = Put(@, k, v)]

\* next((program for program in programs if ...), None): its index, 0 for None.
LastWithSlug(m, refs, marketing_slug) ==
    LET found == {i \in 1..Len(refs) : m.heap[refs[i]].marketing_slug = marketing_slug}
    IN IF found = {} THEN 0 ELSE CHOOSE i \in found : \A j \in found : i >= j

FirstWithSlug(m, refs, marketing_slug) ==
    LET found == {i \in 1..Len(refs) : m.heap[refs[i]].marketing_slug = marketing_slug}
    IN IF found = {} THEN 0 ELSE CHOOSE i \in found : \A j \in found : i <= j

get_program_with_type_and_instructors(m, marketing_slug, key_order, name_order) ==
    Then(get_programs(m, None, None), LAMBDA r1 :
    Then(FirstWithSlug(r1.m, r1.ret, marketing_slug), LAMBDA i :
    IF i = 0 THEN Return(r1.m, NoneRef)
    ELSE
    Then(get_programs(r1.m, r1.m.heap[r1.ret[i]].uuid, None), LAMBDA r2 :
    Then(deepcopy(r2.m, r2.ret), LAMBDA r3 :
    Then(get_program_type(r3.m, r3.m.heap[r2.ret].type.str), LAMBDA r4 :
    IF r4.err # NoError THEN r4
    ELSE
    Then(SetItem(r4.m, r3.ret, "type", r4.ret), LAMBDA m5 :
    Then(_get_program_instructors(m5, m5.heap[r2.ret], key_order, name_order), LAMBDA r6 :
    Return(SetItem(r6.m, r3.ret, "instructors", r6.ret), r3.ret))))))))

\* {program_type['name']: program_type for program_type in ...}
TypesByName(program_types) ==
    LET names == {program_types[i].name : i \in DOMAIN program_types}
        last(n) == CHOOSE i \in DOMAIN program_types :
                       /\ program_types[i].name = n
                       /\ \A j \in DOMAIN program_types : program_types[j].name = n => j <= i
    IN [n \in names |-> program_types[last(n)]]

\* The loop over the programs: out gathers the references of the copies.
RECURSIVE AttachTypes(_, _, _, _, _)
AttachTypes(m, out, refs, program_types, include_types) ==
    IF refs = <<>> THEN Return(m, out)
    ELSE Then(Head(refs), LAMBDA program :
         Then(m.heap[program].type.str, LAMBDA name :
         IF Falsy(include_types) \/ \E k \in DOMAIN include_types : include_types[k] = name
         THEN Then(deepcopy(m, program), LAMBDA r :
              IF name \notin DOMAIN program_types THEN Raise(r.m, "KeyError")
              ELSE Then(SetItem(r.m, r.ret, "type", program_types[name]), LAMBDA m1 :
                   AttachTypes(m1, Append(out, r.ret), Tail(refs), program_types, include_types)))
         ELSE AttachTypes(m, out, Tail(refs), program_types, include_types)))

get_programs_with_type_unfiltered(m, include_types) ==
    Then(get_programs(m, None, None), LAMBDA r1 :
    IF r1.ret # <<>>
    THEN Then(get_program_types(r1.m), LAMBDA r2 :
         Then(TypesByName(r2.ret), LAMBDA program_types :
         AttachTypes(r2.m, <<>>, r1.ret, program_types, None)))
    ELSE Return(r1.m, <<>>))

get_programs_with_type(m, include_types) ==
    Then(get_programs(m, None, None), LAMBDA r1 :
    IF r1.ret # <<>>
    THEN Then(get_program_types(r1.m), LAMBDA r2 :
         Then(TypesByName(r2.ret), LAMBDA program_types :
         AttachTypes(r2.m, <<>>, r1.ret, program_types, include_types)))
    ELSE Return(r1.m, <<>>))

----------------------------------------------------------------------------
(* The calls a request can make, and the environment *)

\* The value behind a reference or a list of references, as the caller sees it.
DerefList(h, refs) == [i \in 1..Len(refs) |-> h[refs[i]]]

\* get_programs answers one program exactly when it reached the fetch utility
\* with a uuid, and a list otherwise.
DerefPrograms(r, uuid) ==
    IF uuid # None /\ r.m.tr.fetch_calls # <<>> THEN r.m.heap[r.ret]
    ELSE DerefList(r.m.heap, r.ret)

Collect(h) == [r \in OriginalRefs |-> h[r]]

Done(name, args, r, ret) ==
    /\ cache' = r.m.cache
    /\ heap' = Collect(r.m.heap)
    /\ op' = [name |-> name, args |-> args, err |-> r.err, ret |-> ret, tr |-> r.m.tr]
    /\ UNCHANGED <<config, users, programs, types, courses, race>>

CallGetPrograms ==
    \E uuid \in {None} \cup {programs[i].uuid : i \in DOMAIN programs \cap FetchedPrograms},
       type \in {None} \cup FilterTypes :
        \E r \in {get_programs(Enter, uuid, type)} :
            Done("get_programs", <<uuid, type>>, r, DerefPrograms(r, uuid))

CallGetProgramTypes ==
    \E r \in {get_program_types(Enter)} :
        Done("get_program_types", <<>>, r, r.ret)

CallGetProgramType ==
    \E name \in TypeNames :
        \E r \in {get_program_type(Enter, name)} :
            Done("get_program_type", <<name>>, r, r.ret)

Perms(S) == {f \in [1..Cardinality(S) -> S] : \A i, j \in DOMAIN f : f[i] = f[j] => i = j}

\* The course keys the programs hold and the instructor names the course
\* storage holds: an iteration order is an order of these.
UsedCourseKeys == UNION {get_program_course_run_keys(programs[i]) : i \in DOMAIN programs}
UsedNames ==
    UNION {{CourseInstructors(courses[k])[j].name : j \in DOMAIN CourseInstructors(courses[k])} :
              k \in {c \in CourseKeys : courses[c] # NoneDict}}

CallGetProgramInstructors ==
    \E i \in DOMAIN programs, key_order \in Perms(UsedCourseKeys), name_order \in Perms(UsedNames) :
        \E r \in {_get_program_instructors(Enter, heap[ListRef(i)], key_order, name_order)} :
            Done("_get_program_instructors", <<programs[i].uuid>>, r, r.ret)

CallGetProgramWithTypeAndInstructors ==
    \E marketing_slug \in Slugs, key_order \in Perms(UsedCourseKeys), name_order \in Perms(UsedNames) :
        \E r \in {get_program_with_type_and_instructors(Enter, marketing_slug, key_order, name_order)} :
            Done("get_program_with_type_and_instructors", <<marketing_slug>>, r,
                 IF r.err # NoError \/ r.ret = NoneRef THEN NoneDict ELSE r.m.heap[r.ret])

\* The include_types argument: left out (None), or a list of type names.
IncludeTypes == {<<>>} \cup {<<filter>> : filter \in SeqsUpTo(TypeNames, MaxInclude)}

CallGetProgramsWithType ==
    \E given \in IncludeTypes :
        \E r \in {get_programs_with_type(Enter, IF given = <<>> THEN None ELSE given[1])} :
            Done("get_programs_with_type", <<IF given = <<>> THEN None ELSE given[1]>>, r,
                 IF r.err # NoError THEN NoneDict ELSE DerefList(r.m.heap, r.ret))

Configs ==
    {[present |-> FALSE, enabled |-> FALSE, cache_ttl |-> 0]}
      \cup [present : {TRUE}, enabled : BOOLEAN, cache_ttl : {0, 1}]

\* An administrator saves, or deletes, the integration's configuration.
SetConfig ==
    /\ \E c \in Configs : c # config /\ config' = c
    /\ op' = NoOp
    /\ UNCHANGED <<users, programs, types, courses, cache, heap, race>>

\* The service user is created or deleted.
SetUsers ==
    /\ \E u \in SUBSET {ServiceUsername} : u # users /\ users' = u
    /\ op' = NoOp
    /\ UNCHANGED <<config, programs, types, courses, cache, heap, race>>

\* A cache entry times out or is evicted.
CacheExpire ==
    /\ \E k \in DOMAIN cache : cache' = [j \in DOMAIN cache \ {k} |-> cache[j]]
    /\ op' = NoOp
    /\ UNCHANGED <<config, users, programs, types, courses, heap, race>>

Course(runs) == [course_runs |-> [i \in 1..Len(runs) |-> [key |-> runs[i]]]]

Program(i, slug, type, crs) ==
    [uuid |-> UuidOf(i), marketing_slug |-> slug, type |-> Str(type), courses |-> crs]

ProgramType(name, logo) == [name |-> name, logo_image |-> logo]

Instructor(name, organization) == [name |-> name, organization |-> organization]

CourseDescriptor(instructors) == [instructor_info |-> [instructors |-> instructors]]

\* The objects the fetch utility hands out: for each program one in the
\* listing and one for the program fetched by uuid.
Objects(ps) == [r \in 1..(2 * Len(ps)) |-> ps[IF r > Len(ps) THEN r - Len(ps) ELSE r]]

Init ==
    /\ config \in Configs
    /\ users \in SUBSET {ServiceUsername}
    /\ programs = <<Program(1, "s1", "A", <<Course(<<"c1", "c2">>), Course(<<"c1">>)>>),
                    Program(2, "s1", "B", <<Course(<<"c2">>)>>)>>
    /\ types = <<ProgramType("A", 1), ProgramType("A", 2)>>
    /\ courses = [k \in CourseKeys |->
                     IF k = "c1" THEN CourseDescriptor(<<Instructor("n1", "o1")>>) ELSE NoneDict]
    /\ cache = <<>>
    /\ heap = Objects(programs)
    /\ op = NoOp
    /\ race = NoRace

Next ==
    \/ CallGetPrograms
    \/ CallGetProgramTypes
    \/ CallGetProgramType
    \/ CallGetProgramInstructors
    \/ CallGetProgramWithTypeAndInstructors
    \/ CallGetProgramsWithType
    \/ SetConfig
    \/ SetUsers
    \/ CacheExpire

Spec == Init /\ [][Next]_vars

\* Every catalog: the integration is enabled with its service user, and the
\* programs and program types are any lists within the bounds.
ProgramChoices(i) == {Program(i, slug, type, <<Course(<<"c1">>)>>) : slug \in Slugs, type \in TypeNames}

Catalogs ==
    {ps \in SeqsUpTo(UNION {ProgramChoices(i) : i \in 1..MaxPrograms}, MaxPrograms) :
        \A i \in DOMAIN ps : ps[i] \in ProgramChoices(i)}

TypeChoices == {ProgramType("A", 1), ProgramType("A", 2), ProgramType("B", 1)}

InitCatalog ==
    /\ config \in [present : {TRUE}, enabled : {TRUE}, cache_ttl : {0, 1}]
    /\ users = {ServiceUsername}
    /\ programs \in Catalogs
    /\ types \in SeqsUpTo(TypeChoices, MaxTypes)
    /\ courses = [k \in CourseKeys |->
                     IF k = "c1" THEN CourseDescriptor(<<Instructor("n1", "o1")>>) ELSE NoneDict]
    /\ cache = <<>>
    /\ heap = Objects(programs)
    /\ op = NoOp
    /\ race = NoRace

NextCatalog ==
    \/ CallGetProgramWithTypeAndInstructors
    \/ CacheExpire

SpecCatalog == InitCatalog /\ [][NextCatalog]_vars

\* Every catalog, but for the marketing slugs, which the listing with types
\* does not read.
InitTyped ==
    /\ InitCatalog
    /\ \A i \in DOMAIN programs : programs[i].marketing_slug = "s1"

NextTyped ==
    \/ CallGetProgramsWithType
    \/ CacheExpire

SpecTyped == InitTyped /\ [][NextTyped]_vars

\* Every list of program types, under every configuration.
InitTypes ==
    /\ config \in Configs
    /\ users \in SUBSET {ServiceUsername}
    /\ programs = <<>>
    /\ types \in SeqsUpTo(TypeChoices, MaxTypes)
    /\ courses = [k \in CourseKeys |-> NoneDict]
    /\ cache = <<>>
    /\ heap = Objects(programs)
    /\ op = NoOp
    /\ race = NoRace

NextTypes ==
    \/ CallGetProgramTypes
    \/ CallGetProgramType
    \/ CacheExpire

SpecTypes == InitTypes /\ [][NextTypes]_vars

\* Every course storage: each course key has no descriptor, or a descriptor
\* with any list of instructors within the bound, or one without the list.
Instructors == {Instructor(n, o) : n \in InstructorNames, o \in Organizations}

Descriptors ==
    {NoneDict, [instructor_info |-> <<>>]}
      \cup {CourseDescriptor(l) : l \in SeqsUpTo(Instructors, MaxInstructors)}

CourseLists ==
    {<<>>, <<Course(<<"c1">>)>>, <<Course(<<"c1", "c2">>)>>, <<Course(<<"c2">>), Course(<<"c1", "c2">>)>>}

InitCourses ==
    /\ config = [present |-> TRUE, enabled |-> TRUE, cache_ttl |-> 1]
    /\ users = {ServiceUsername}
    /\ \E crs \in CourseLists : programs = <<Program(1, "s1", "A", crs)>>
    /\ types = <<ProgramType("A", 1)>>
    /\ courses \in [CourseKeys -> Descriptors]
    /\ cache = <<>>
    /\ heap = Objects(programs)
    /\ op = NoOp
    /\ race = NoRace

NextCourses ==
    \/ CallGetProgramInstructors
    \/ CacheExpire

SpecCourses == InitCourses /\ [][NextCourses]_vars

----------------------------------------------------------------------------
(* Concurrent requests in _get_program_instructors *)

\* Several requests run _get_program_instructors for one program, each in its
\* own thread or process, and share nothing but the cache. A step of a
\* request is one access to the cache or to the course storage. The course
\* storage does not change and no cache entry times out while they run. The
\* iteration orders of the key set and of the dict are those of the
\* interpreter for these keys and names: any order, the same for every
\* request.
MaxRequests == 3

\* cache.set(cache_key, program_instructors_list): the entry is replaced.
CacheSet_append(c, cache_key, value) ==
    Put(c, cache_key, (IF cache_key \in DOMAIN c THEN c[cache_key] ELSE <<>>) \o value)

CacheSet(c, cache_key, value) == Put(c, cache_key, value)

\* The program the requests are about and its cache key.
RaceProgram == heap[ListRef(1)]
RaceCacheKey == "program.instructors." \o RaceProgram.uuid

\* The locals of a request that enters the function.
Entered ==
    [pc |-> "get", hit |-> FALSE, keys |-> <<>>,
     program_instructors_dict |-> <<>>, program_instructors_list |-> None]

\* program_instructors_list = cache.get(cache_key), then the test of the
\* list: a request that finds a list with entries returns it, one that finds
\* no entry (None) or an empty list starts the loop.
RaceCacheGet(r) ==
    /\ race.of[r].pc = "get"
    /\ \E found \in {IF RaceCacheKey \in DOMAIN cache THEN <<cache[RaceCacheKey]>> ELSE <<>>} :
        race' = [race EXCEPT !.of[r] =
                    IF found = <<>> \/ found[1] = <<>>
                    THEN [@ EXCEPT !.pc = "loop",
                                   !.program_instructors_list =
                                       IF found = <<>> THEN None ELSE found[1],
                                   !.keys = InOrder(race.key_order,
                                                    get_program_course_run_keys(RaceProgram))]
                    ELSE [@ EXCEPT !.pc = "done", !.hit = TRUE,
                                   !.program_instructors_list = found[1]]]
    /\ UNCHANGED <<config, users, programs, types, courses, cache, heap, op>>

\* One turn of the loop: module_store.get_course(course_run_key) and the
\* update of the request's dict.
RaceLookup(r) ==
    /\ race.of[r].pc = "loop"
    /\ race.of[r].keys # <<>>
    /\ \E course_descriptor \in {courses[Head(race.of[r].keys)]} :
        race' = [race EXCEPT !.of[r].keys = Tail(@),
                             !.of[r].program_instructors_dict =
                                 IF course_descriptor # NoneDict
                                 THEN DictUpdate(@, CourseInstructors(course_descriptor))
                                 ELSE @]
    /\ UNCHANGED <<config, users, programs, types, courses, cache, heap, op>>

\* After the loop: the values of the dict, cache.set, and the return.
RaceCacheSet(r) ==
    /\ race.of[r].pc = "loop"
    /\ race.of[r].keys = <<>>
    /\ \E names \in {InOrder(race.name_order, DOMAIN race.of[r].program_instructors_dict)} :
       \E program_instructors_list \in
              {[i \in 1..Len(names) |-> race.of[r].program_instructors_dict[names[i]]]} :
        /\ cache' = CacheSet(cache, RaceCacheKey, program_instructors_list)
        /\ race' = [race EXCEPT !.of[r].pc = "done",
                                !.of[r].program_instructors_list = program_instructors_list]
    /\ UNCHANGED <<config, users, programs, types, courses, heap, op>>

\* The course storages of the race: each key without a descriptor, or with
\* a descriptor of at most one instructor.
RaceDescriptors == {NoneDict} \cup {CourseDescriptor(l) : l \in SeqsUpTo(Instructors, 1)}

\* The cache the requests find: no entry for the program, or any list that an
\* earlier call left, of this course storage or of an older one.
RaceCaches == {<<>>} \cup {Put(<<>>, "program.instructors.u1", l) : l \in SeqsUpTo(Instructors, 1)}

InitRace ==
    /\ config = [present |-> TRUE, enabled |-> TRUE, cache_ttl |-> 1]
    /\ users = {ServiceUsername}
    /\ programs = <<Program(1, "s1", "A", <<Course(<<"c1", "c2">>)>>)>>
    /\ types = <<ProgramType("A", 1)>>
    /\ courses \in [CourseKeys -> RaceDescriptors]
    /\ cache \in RaceCaches
    /\ heap = Objects(programs)
    /\ op = NoOp
    /\ \E key_order \in Perms(UsedCourseKeys), name_order \in Perms(UsedNames) :
        race = [of |-> [r \in 1..MaxRequests |-> Entered],
                key_order |-> key_order, name_order |-> name_order, before |-> cache]

NextRace ==
    \E r \in DOMAIN race.of :
        \/ RaceCacheGet(r)
        \/ RaceLookup(r)
        \/ RaceCacheSet(r)

SpecRace == InitRace /\ [][NextRace]_vars

----------------------------------------------------------------------------
(* Properties *)

FetchOps == {"get_programs", "get_program_types"}

Enabled == CatalogIntegration_current.enabled
ServiceUserExists == ServiceUsername \in users
CacheEnabled == is_cache_enabled(CatalogIntegration_current)

\* C1: with the integration disabled, or no configuration, get_programs and
\* get_program_types return [] and look up no user, create no API client,
\* touch no cache entry and send no request.
C1_DisabledReturnsEmpty ==
    (op.name \in FetchOps /\ ~Enabled) =>
        /\ op.err = NoError
        /\ op.ret = <<>>
        /\ op.tr.user_lookups = 0
        /\ op.tr.api_clients = 0
        /\ op.tr.cache_gets = <<>> /\ op.tr.cache_sets = <<>>
        /\ op.tr.fetch_calls = <<>> /\ op.tr.requests = <<>>

C1_Witness ==
    /\ op.name = "get_programs" /\ op.args = <<"u1", "A">>
    /\ config.present /\ ~config.enabled
    /\ "catalog.api.data.programs.A.u1" \in DOMAIN cache
    /\ op.ret = <<>>

\* C2: with the integration enabled and no user of the service username,
\* get_programs and get_program_types return [] without an error and
\* without calling the fetch utility.
C2_MissingUserReturnsEmpty ==
    (op.name \in FetchOps /\ Enabled /\ ~ServiceUserExists) =>
        /\ op.err = NoError
        /\ op.ret = <<>>
        /\ op.tr.fetch_calls = <<>>

C2_Witness ==
    /\ op.name = "get_program_types"
    /\ Enabled /\ ~ServiceUserExists
    /\ op.tr.user_lookups = 1
    /\ op.ret = <<>>

\* The call get_programs(uuid, type) is to make to the fetch utility, but
\* for the cache key.
ProgramsCall(call, uuid, type) ==
    /\ call.resource = "programs"
    /\ call.resource_id = uuid
    /\ DOMAIN call.querystring =
           {"marketable", "exclude_utm"}
             \cup (IF uuid # None THEN {"use_full_course_serializer"} ELSE {})
             \cup (IF type # None THEN {"type"} ELSE {})
    /\ call.querystring["marketable"] = 1
    /\ call.querystring["exclude_utm"] = 1
    /\ uuid # None => call.querystring["use_full_course_serializer"] = 1
    /\ type # None => call.querystring["type"] = type

ProgramsCacheKey(type) ==
    IF type = None THEN "catalog.api.data.programs" ELSE "catalog.api.data.programs." \o type

\* C7 as stated: one call on 'programs' with the uuid, the query string and
\* the cache key '<prefix>.programs[.T]'.
C7_FetchCallAsStated ==
    (op.name = "get_programs" /\ Enabled /\ ServiceUserExists) =>
        /\ Len(op.tr.fetch_calls) = 1
        /\ ProgramsCall(op.tr.fetch_calls[1], op.args[1], op.args[2])
        /\ op.tr.fetch_calls[1].cache_key = ProgramsCacheKey(op.args[2])

\* C7, amended: one call on 'programs' with the uuid and the query string;
\* its cache key is '<prefix>.programs[.T]' when the configuration's cache is
\* enabled and None when it is disabled.
C7_FetchCall ==
    (op.name = "get_programs" /\ Enabled /\ ServiceUserExists) =>
        /\ Len(op.tr.fetch_calls) = 1
        /\ ProgramsCall(op.tr.fetch_calls[1], op.args[1], op.args[2])
        /\ op.tr.fetch_calls[1].cache_key =
               (IF CacheEnabled THEN ProgramsCacheKey(op.args[2]) ELSE None)

C7_Witness ==
    /\ op.name = "get_programs" /\ op.args = <<"u1", "A">>
    /\ Enabled /\ ServiceUserExists /\ CacheEnabled
    /\ Len(op.tr.fetch_calls) = 1
    /\ op.tr.fetch_calls[1].cache_key = "catalog.api.data.programs.A"
    /\ op.ret = programs[1]

\* C8: every call get_programs and get_program_types make to the fetch
\* utility passes None as the cache key when the configuration's cache is
\* disabled and the prefixed key otherwise, and with the cache disabled no
\* entry is read or written.
C8_CacheKeyOnlyWhenEnabled ==
    op.name \in FetchOps =>
        /\ \A i \in DOMAIN op.tr.fetch_calls :
              op.tr.fetch_calls[i].cache_key =
                  (IF ~CacheEnabled THEN None
                   ELSE IF op.name = "get_programs" THEN ProgramsCacheKey(op.args[2])
                   ELSE "catalog.api.data.program_types")
        /\ ~CacheEnabled => op.tr.cache_gets = <<>> /\ op.tr.cache_sets = <<>>

C8_Witness ==
    /\ op.name = "get_programs" /\ op.args = <<None, None>>
    /\ ~CacheEnabled
    /\ "catalog.api.data.programs" \in DOMAIN cache
    /\ Len(op.tr.fetch_calls) = 1 /\ Len(op.tr.requests) = 1
    /\ op.tr.cache_gets = <<>>

\* C10: a call of _get_program_instructors that finds the program's entry in
\* the cache returns the cached list and looks up no course.
C10_CachedMeansNoLookup ==
    (op.name = "_get_program_instructors" /\ op.tr.cache_gets[1].hit) =>
        /\ op.ret = cache[op.tr.cache_gets[1].key]
        /\ op.tr.course_lookups = <<>>

\* What get_programs() and get_program_types() answer in the current state.
ReturnedPrograms == IF Enabled /\ ServiceUserExists THEN programs ELSE <<>>
ReturnedTypes == IF Enabled /\ ServiceUserExists THEN types ELSE <<>>

HasType(name) == \E i \in DOMAIN ReturnedTypes : ReturnedTypes[i].name = name

FirstType(name) ==
    ReturnedTypes[CHOOSE i \in DOMAIN ReturnedTypes :
        /\ ReturnedTypes[i].name = name
        /\ \A j \in 1..(i - 1) : ReturnedTypes[j].name # name]

LastType(name) ==
    ReturnedTypes[CHOOSE i \in DOMAIN ReturnedTypes :
        /\ ReturnedTypes[i].name = name
        /\ \A j \in (i + 1)..Len(ReturnedTypes) : ReturnedTypes[j].name # name]

\* C3: the program objects handed out by get_programs and held in the cache
\* keep their type name string and get no 'instructors' key, whatever calls
\* of get_programs_with_type and get_program_with_type_and_instructors ran.
C3_CachedProgramsUnchanged ==
    \A r \in DOMAIN heap :
        /\ IsStr(heap[r].type)
        /\ "instructors" \notin DOMAIN heap[r]
        /\ heap[r] = Objects(programs)[r]

C3_Witness ==
    /\ op.name = "get_program_with_type_and_instructors"
    /\ op.err = NoError /\ op.ret # NoneDict
    /\ "instructors" \in DOMAIN op.ret /\ ~IsStr(op.ret.type)
    /\ "catalog.api.data.programs.u1" \in DOMAIN cache
    /\ op.ret.uuid = heap[cache["catalog.api.data.programs.u1"]].uuid

\* The list is an aggregate of the instructors of the program's courses: one
\* entry for each name found in a descriptor of one of its course runs.
Aggregated(program, list) ==
    LET found == UNION {{CourseInstructors(courses[k])[i] : i \in DOMAIN CourseInstructors(courses[k])} :
                           k \in {c \in get_program_course_run_keys(program) : courses[c] # NoneDict}}
    IN /\ \A i, j \in DOMAIN list : list[i].name = list[j].name => i = j
       /\ {list[i].name : i \in DOMAIN list} = {x.name : x \in found}
       /\ \A i \in DOMAIN list : list[i] \in found

\* The answer for the program: refetched by its uuid, with the type object
\* and the instructors attached.
Enriched(program) ==
    /\ op.err = NoError
    /\ op.ret # NoneDict
    /\ \E k \in DOMAIN op.tr.fetch_calls :
          /\ op.tr.fetch_calls[k].resource = "programs"
          /\ op.tr.fetch_calls[k].resource_id = program.uuid
    /\ DOMAIN op.ret = DOMAIN program \cup {"instructors"}
    /\ \A f \in DOMAIN program \ {"type"} : op.ret[f] = program[f]
    /\ op.ret.type = FirstType(program.type.str)
    /\ Aggregated(program, op.ret.instructors)
    /\ op.ret.instructors = cache["program.instructors." \o program.uuid]

SlugMatches(marketing_slug) ==
    {i \in DOMAIN ReturnedPrograms : ReturnedPrograms[i].marketing_slug = marketing_slug}

FirstMatch(marketing_slug) ==
    ReturnedPrograms[CHOOSE i \in SlugMatches(marketing_slug) :
                         \A j \in SlugMatches(marketing_slug) : i <= j]

\* C4 as stated: None when no program has the slug, and otherwise the first
\* match, refetched by uuid, with its type object and instructors.
C4_EnrichedOrNoneAsStated ==
    op.name = "get_program_with_type_and_instructors" =>
        IF SlugMatches(op.args[1]) = {} THEN op.err = NoError /\ op.ret = NoneDict
        ELSE Enriched(FirstMatch(op.args[1]))

\* C4, amended: None when no program has the slug; otherwise the first match,
\* refetched by uuid, with its type object and instructors when a program
\* type of its type name exists, and a StopIteration error when none does.
C4_EnrichedOrNone ==
    op.name = "get_program_with_type_and_instructors" =>
        IF SlugMatches(op.args[1]) = {} THEN op.err = NoError /\ op.ret = NoneDict
        ELSE IF HasType(FirstMatch(op.args[1]).type.str) THEN Enriched(FirstMatch(op.args[1]))
        ELSE op.err = "StopIteration"

C4_Witness ==
    /\ op.name = "get_program_with_type_and_instructors"
    /\ Cardinality(SlugMatches(op.args[1])) = 2
    /\ programs[1].type # programs[2].type
    /\ Len(types) = 2 /\ types[1].name = types[2].name /\ types[1] # types[2]
    /\ op.err = NoError /\ op.ret # NoneDict
    /\ op.ret.type = types[1]
    /\ op.ret.instructors # <<>>

\* The programs get_programs_with_type(include_types) selects, in order.
Selected(include_types) ==
    LET keep(program) == \/ Falsy(include_types)
                         \/ \E k \in DOMAIN include_types : include_types[k] = program.type.str
    IN SelectSeq(ReturnedPrograms, keep)

\* C5 as stated: the selected programs, in order, each with its type object.
C5_TypedProgramsAsStated ==
    op.name = "get_programs_with_type" =>
        LET selected == Selected(op.args[1])
        IN /\ op.err = NoError
           /\ Len(op.ret) = Len(selected)
           /\ \A k \in DOMAIN selected :
                 /\ HasType(selected[k].type.str)
                 /\ op.ret[k] = Put(selected[k], "type", LastType(selected[k].type.str))

\* C5, amended: the selected programs, in order, each with its type object,
\* when every selected program's type name has a program type, and a KeyError
\* when one has none.
C5_TypedPrograms ==
    op.name = "get_programs_with_type" =>
        LET selected == Selected(op.args[1])
        IN IF \A k \in DOMAIN selected : HasType(selected[k].type.str)
           THEN /\ op.err = NoError
                /\ Len(op.ret) = Len(selected)
                /\ \A k \in DOMAIN selected :
                      op.ret[k] = Put(selected[k], "type", LastType(selected[k].type.str))
           ELSE op.err = "KeyError"

C5_Witness ==
    /\ op.name = "get_programs_with_type"
    /\ Len(programs) = 2 /\ programs[1].type = Str("A") /\ programs[2].type = Str("B")
    /\ types = <<ProgramType("B", 1), ProgramType("A", 2)>>
    /\ ~Falsy(op.args[1]) /\ op.args[1] = <<"B">>
    /\ op.err = NoError
    /\ op.ret = <<Put(programs[2], "type", types[1])>>

\* C9: get_program_type(name) returns the first program type of that name in
\* the order of get_program_types(), and fails with StopIteration when there
\* is none, the empty list included.
C9_FirstTypeOrStopIteration ==
    op.name = "get_program_type" =>
        IF HasType(op.args[1])
        THEN op.err = NoError /\ op.ret = FirstType(op.args[1])
        ELSE op.err = "StopIteration"

C9_Witness ==
    /\ op.name = "get_program_type"
    /\ op.tr.cache_gets # <<>> /\ op.tr.cache_gets[1].hit
    /\ Len(types) = 2 /\ types[1].name = types[2].name /\ types[1] # types[2]
    /\ op.args = <<types[2].name>>
    /\ op.err = NoError /\ op.ret = types[1]

\* The program a call of _get_program_instructors was about.
ProgramOf(uuid) == programs[CHOOSE i \in DOMAIN programs : programs[i].uuid = uuid]

\* The instructors of the course descriptor of a key, none without a descriptor.
InstructorsAt(k) == IF courses[k] = NoneDict THEN <<>> ELSE CourseInstructors(courses[k])

HasName(k, n) == \E j \in DOMAIN InstructorsAt(k) : InstructorsAt(k)[j].name = n

\* The entry of name n that wins when the keys are processed in this order:
\* the last of that name in the list of the last course that has the name.
Winner(processed, n) ==
    LET p == CHOOSE p \in DOMAIN processed :
                 /\ HasName(processed[p], n)
                 /\ \A q \in DOMAIN processed : HasName(processed[q], n) => q <= p
        l == InstructorsAt(processed[p])
        j == CHOOSE j \in DOMAIN l : l[j].name = n /\ \A i \in DOMAIN l : l[i].name = n => i <= j
    IN l[j]

\* C6: on a cache miss _get_program_instructors looks up each course key of
\* the program once, skips the keys without a descriptor, and returns one
\* entry for each instructor name found, no two of the same name, the entry of
\* the course processed last winning.
C6_OneEntryPerName ==
    (op.name = "_get_program_instructors" /\ ~op.tr.cache_gets[1].hit) =>
        LET keys == get_program_course_run_keys(ProgramOf(op.args[1]))
            processed == op.tr.course_lookups
            names == {n \in InstructorNames : \E k \in keys : HasName(k, n)}
        IN /\ op.err = NoError
           /\ Len(processed) = Cardinality(keys)
           /\ {processed[p] : p \in DOMAIN processed} = keys
           /\ Len(op.ret) = Cardinality(names)
           /\ {op.ret[i].name : i \in DOMAIN op.ret} = names
           /\ \A i, j \in DOMAIN op.ret : op.ret[i].name = op.ret[j].name => i = j
           /\ \A i \in DOMAIN op.ret : op.ret[i] = Winner(processed, op.ret[i].name)

C6_Witness ==
    /\ op.name = "_get_program_instructors" /\ ~op.tr.cache_gets[1].hit
    /\ op.tr.course_lookups = <<"c2", "c1">>
    /\ courses["c1"] = CourseDescriptor(<<Instructor("n1", "o1")>>)
    /\ courses["c2"] = CourseDescriptor(<<Instructor("n1", "o2"), Instructor("n2", "o1")>>)
    /\ op.ret = <<Instructor("n2", "o1"), Instructor("n1", "o1")>>

\* The single sequential call: _get_program_instructors run alone on the
\* cache that the requests found.
Sequential ==
    _get_program_instructors([cache |-> race.before, heap |-> heap, tr |-> NoTrace],
                             RaceProgram, race.key_order, race.name_order)

Finished(r) == race.of[r].pc = "done"

\* C11: when several requests run _get_program_instructors concurrently for
\* one program and the course storage does not change, then in every
\* interleaving of their cache reads, course lookups and cache writes each
\* request returns the list that a single call run alone would return, and
\* once a request has returned the cache entry holds the value that the
\* single call would leave.
C11_RaceAsSequential ==
    /\ \A r \in DOMAIN race.of :
          Finished(r) => race.of[r].program_instructors_list = Sequential.ret
    /\ (\E r \in DOMAIN race.of : Finished(r)) =>
          /\ RaceCacheKey \in DOMAIN cache
          /\ cache[RaceCacheKey] = Sequential.m.cache[RaceCacheKey]

\* Several requests that all missed the cache, all computed the list from two
\* courses that disagree on an instructor, and all wrote it.
C11_Witness ==
    /\ Cardinality(DOMAIN race.of) >= 2
    /\ \A r \in DOMAIN race.of : Finished(r) /\ ~race.of[r].hit
    /\ race.before = <<>>
    /\ race.key_order = <<"c1", "c2">>
    /\ courses["c1"] = CourseDescriptor(<<Instructor("n1", "o1")>>)
    /\ courses["c2"] = CourseDescriptor(<<Instructor("n1", "o2")>>)
    /\ cache[RaceCacheKey] = <<Instructor("n1", "o2")>>

=============================================================================
